---- MODULE Spec2Model ----
(***************************************************************************)
(* KPI dashboard generator (kpi_dashboard.py): one run of main(), the      *)
(* query loop, merge_dataframes, the sort and generate_html_report.        *)
(*                                                                         *)
(* Data representation                                                     *)
(*   - a DataFrame is [cols |-> sequence of column names,                  *)
(*                     rows |-> sequence of rows], a row being a function  *)
(*     from the frame's column names to cell values;                       *)
(*   - the 'dossier' column holds text; dossiers are DossierNames[1..N],   *)
(*     listed in lexicographic order;                                      *)
(*   - COUNT columns hold naturals; a missing numeric cell (pandas NaN) is *)
(*     NaN, a missing text cell is NaNText, the empty string is "".        *)
(***************************************************************************)
EXTENDS Integers, Sequences, FiniteSets, TLC

\* ---------------------------------------------------------------- bounds
NumDossiers == 2
MaxTables == 3
MaxPieces == 52
MaxComptes == 12

\* ------------------------------------------------------- program constants
NumQueries == 6
PiecesWarning == 50
ComptesWarning == 10

DossierNames == <<"A", "B", "C", "D">>
Dossiers == {DossierNames[i] : i \in 1..NumDossiers}
Rank(d) == CHOOSE i \in 1..Len(DossierNames) : DossierNames[i] = d

NaN == -1
NaNText == "NaN"

\* QUERIES: the catalog, in dict (insertion) order, and the columns each
\* query selects besides 'dossier'.
QueryNames ==
  <<"pieces_exportees", "ecritures_exportees", "pieces_non_exportees",
    "ecritures_non_exportees", "comptes_attente", "dates_extremes">>

QUERIES ==
  <<  <<"nb_pieces_exportees">>,
      <<"nb_ecritures_exportees">>,
      <<"nb_pieces_a_traiter">>,
      <<"nb_ecritures_a_traiter">>,
      <<"nb_comptes_attente">>,
      <<"date_min_a_traiter", "date_max_a_traiter">> >>

\* Columns of numeric dtype: the COUNT(...) columns of the catalog.
NumericColumns ==
  {"nb_pieces_exportees", "nb_ecritures_exportees", "nb_pieces_a_traiter",
   "nb_ecritures_a_traiter", "nb_comptes_attente"}

\* Values a query may return in a cell of the given column.
CellValues(col) ==
  IF col = "nb_pieces_exportees" THEN {5}
  ELSE IF col = "nb_ecritures_exportees" THEN {9}
  ELSE IF col = "nb_pieces_a_traiter" THEN {3, 60}
  ELSE IF col = "nb_ecritures_a_traiter" THEN {75}
  ELSE IF col = "nb_comptes_attente" THEN {11}
  ELSE {"15-03-2024"}

Range(s) == {s[i] : i \in 1..Len(s)}
ColSet(df) == Range(df.cols)

\* pd.DataFrame(): no columns, no rows.
EmptyDataFrame == [cols |-> <<>>, rows |-> <<>>]

IsEmptyNoColumns(df) == Len(df.cols) = 0

\* df.empty: no rows (or no columns)
IsEmpty(df) == Len(df.rows) = 0

RECURSIVE SetToSortedSeq(_)
SetToSortedSeq(S) ==
  IF S = {} THEN <<>>
  ELSE LET d == CHOOSE x \in S : \A y \in S : Rank(x) <= Rank(y)
       IN <<d>> \o SetToSortedSeq(S \ {d})

\* ------------------------------------------------------------ sort_values
\* df.sort_values(col, ascending=False, na_position='last') on the rows:
\* rows with a value come first, in non-increasing order; NaN rows last.
\* (The relative order of equal values is the one of an insertion sort.)
PrecedesAscending(a, b) == a <= b

Precedes(a, b) == a >= b

RECURSIVE InsertRow(_, _, _)
InsertRow(row, sorted, col) ==
  IF sorted = <<>> THEN <<row>>
  ELSE IF Precedes(Head(sorted)[col], row[col])
       THEN <<Head(sorted)>> \o InsertRow(row, Tail(sorted), col)
       ELSE <<row>> \o sorted

RECURSIVE SortRows(_, _)
SortRows(rows, col) ==
  IF rows = <<>> THEN <<>>
  ELSE InsertRow(rows[Len(rows)], SortRows(SubSeq(rows, 1, Len(rows) - 1), col), col)

sort_values(df, col) ==
  LET valued == SelectSeq(df.rows, LAMBDA r : r[col] # NaN)
      missing == SelectSeq(df.rows, LAMBDA r : r[col] = NaN)
  IN [cols |-> df.cols, rows |-> SortRows(valued, col) \o missing]

\* --------------------------------------------------------- query results
\* The rows query q may return for dossier d: every cell drawn from CellValues.
QueryRows(q, d) ==
  { [c \in {"dossier"} \cup Range(QUERIES[q]) |-> IF c = "dossier" THEN d ELSE vf[c]] :
      vf \in { g \in [Range(QUERIES[q]) -> UNION {CellValues(c) : c \in Range(QUERIES[q])}] :
                 \A c \in Range(QUERIES[q]) : g[c] \in CellValues(c) } }

\* ORDER BY of query q: queries 3, 4, 5 order by their count, descending;
\* the others by dossier.
OrderBy(q, df) ==
  IF q \in {3, 4, 5} THEN sort_values(df, QUERIES[q][1]) ELSE df

\* Any table query q may return: one row per dossier of some subset of the
\* dossiers (GROUP BY eec.dossier makes the key unique within a table).
ResultTables(q) ==
  UNION { { OrderBy(q, [cols |-> <<"dossier">> \o QUERIES[q],
                        rows |-> [i \in 1..Cardinality(S) |-> f[SetToSortedSeq(S)[i]]]]) :
              f \in { g \in [S -> UNION {QueryRows(q, d) : d \in S}] :
                        \A d \in S : g[d] \in QueryRows(q, d) } }
        : S \in SUBSET Dossiers }

\* The database the run reads, per dossier: whether it has exported entries,
\* whether it has entries that are not exported ("none"), some but none on an
\* account 47... ("other") or some on an account 47... ("attente"), and the
\* number of distinct pieces of its entries that are not exported.
DossierStates ==
  [exported : BOOLEAN, pending : {"none"}, pieces : {0}]
    \cup [exported : BOOLEAN, pending : {"other", "attente"},
          pieces : CellValues("nb_pieces_a_traiter")]

Databases == [Dossiers -> DossierStates]

\* The FROM / JOIN / WHERE of query q: does dossier state e contribute a group?
Selected(q, e) ==
  IF q \in {1, 2} THEN e.exported
  ELSE IF q \in {3, 4} THEN e.pending # "none"
  ELSE e.pending = "attente"

\* The table query q returns on database d.
QueryResult(q, d) ==
  LET keys == SetToSortedSeq({k \in Dossiers : Selected(q, d[k])})
      cols == <<"dossier">> \o QUERIES[q]
      Cell(k, c) == IF c = "dossier" THEN k
                    ELSE IF c = "nb_pieces_a_traiter" THEN d[k].pieces
                    ELSE CHOOSE v \in CellValues(c) : TRUE
  IN OrderBy(q, [cols |-> cols,
                 rows |-> [i \in 1..Len(keys) |-> [c \in Range(cols) |-> Cell(keys[i], c)]]])

\* ----------------------------------------------------------------- merge
DossiersOf(df) == {df.rows[i]["dossier"] : i \in 1..Len(df.rows)}

NaNOf(col) == IF col \in NumericColumns THEN NaN ELSE NaNText

\* One row of the joined frame: the key, the left cells, the right cells; a
\* side without a matching row contributes missing cells.
JoinRow(k, cols, lcols, lrow, lhit, rrow, rhit) ==
  [c \in cols |->
     IF c = "dossier" THEN k
     ELSE IF c \in lcols THEN (IF lhit THEN lrow[c] ELSE NaNOf(c))
     ELSE (IF rhit THEN rrow[c] ELSE NaNOf(c))]

RowsForKey(k, left, right, cols) ==
  LET L == SelectSeq(left.rows, LAMBDA r : r["dossier"] = k)
      R == SelectSeq(right.rows, LAMBDA r : r["dossier"] = k)
      lc == ColSet(left)
  IN IF L = <<>> THEN [j \in 1..Len(R) |-> JoinRow(k, cols, lc, R[j], FALSE, R[j], TRUE)]
     ELSE IF R = <<>> THEN [i \in 1..Len(L) |-> JoinRow(k, cols, lc, L[i], TRUE, L[i], FALSE)]
     ELSE [n \in 1..(Len(L) * Len(R)) |->
             JoinRow(k, cols, lc, L[((n - 1) \div Len(R)) + 1], TRUE,
                                   R[((n - 1) % Len(R)) + 1], TRUE)]

JoinKeysLeft(left, right) == DossiersOf(left)

JoinKeys(left, right) == DossiersOf(left) \cup DossiersOf(right)

RECURSIVE ConcatRows(_, _, _, _)
ConcatRows(keys, left, right, cols) ==
  IF keys = <<>> THEN <<>>
  ELSE RowsForKey(Head(keys), left, right, cols) \o ConcatRows(Tail(keys), left, right, cols)

\* pd.merge(left, right, on='dossier', how='outer'): the union of the keys
\* of both frames, sorted lexicographically.
Merge(left, right) ==
  LET cols == left.cols \o SelectSeq(right.cols, LAMBDA c : c # "dossier")
  IN [cols |-> cols,
      rows |-> ConcatRows(SetToSortedSeq(JoinKeys(left, right)), left, right, Range(cols))]

RECURSIVE MergeAll(_, _)
MergeAll(result, rest) ==
  IF rest = <<>> THEN result ELSE MergeAll(Merge(result, Head(rest)), Tail(rest))

FillValueTextOnly(col, v) ==
  IF col \in NumericColumns THEN v
  ELSE (IF v = NaNText THEN "" ELSE v)

\* result[numeric_columns].fillna(0), then result.fillna('')
FillValue(col, v) ==
  IF col \in NumericColumns THEN (IF v = NaN THEN 0 ELSE v)
  ELSE (IF v = NaNText THEN "" ELSE v)

FillNa(df) ==
  [cols |-> df.cols,
   rows |-> [i \in 1..Len(df.rows) |-> [c \in ColSet(df) |-> FillValue(c, df.rows[i][c])]]]

merge_dataframes(dfs) ==
  IF dfs = <<>> THEN EmptyDataFrame
  ELSE FillNa(MergeAll(dfs[1], Tail(dfs)))

\* ---------------------------------------------------------------- render
pieces_class_inclusive(n) ==
  IF n >= PiecesWarning THEN "warning" ELSE IF n = 0 THEN "good" ELSE ""

pieces_class(n) == IF n > PiecesWarning THEN "warning" ELSE IF n = 0 THEN "good" ELSE ""
comptes_class(m) == IF m > ComptesWarning THEN "warning" ELSE IF m = 0 THEN "good" ELSE ""

\* row.get(col, default)
Get(df, row, col, default) == IF col \in ColSet(df) THEN row[col] ELSE default

RECURSIVE SumCol(_, _)
SumCol(rows, col) ==
  IF rows = <<>> THEN 0 ELSE Head(rows)[col] + SumCol(Tail(rows), col)

\* totals.get(col, 0): the sum of a numeric column, 0 when it is absent.
Total(df, col) == IF col \in ColSet(df) THEN SumCol(df.rows, col) ELSE 0

RenderRow(df, row) ==
  [dossier |-> row["dossier"],
   pieces_exportees |-> Get(df, row, "nb_pieces_exportees", 0),
   ecritures_exportees |-> Get(df, row, "nb_ecritures_exportees", 0),
   pieces_a_traiter |-> Get(df, row, "nb_pieces_a_traiter", 0),
   pieces_class |-> pieces_class(Get(df, row, "nb_pieces_a_traiter", 0)),
   ecritures_a_traiter |-> Get(df, row, "nb_ecritures_a_traiter", 0),
   comptes_attente |-> Get(df, row, "nb_comptes_attente", 0),
   comptes_class |-> comptes_class(Get(df, row, "nb_comptes_attente", 0)),
   date_min |-> Get(df, row, "date_min_a_traiter", ""),
   date_max |-> Get(df, row, "date_max_a_traiter", "")]

\* The document generate_html_report builds: the summary cards and one table
\* row per row of df, in df's order.
HtmlContent(df) ==
  [total_dossiers |-> Len(df.rows),
   pieces |-> Total(df, "nb_pieces_a_traiter"),
   ecritures |-> Total(df, "nb_ecritures_a_traiter"),
   comptes |-> Total(df, "nb_comptes_attente"),
   rows |-> [i \in 1..Len(df.rows) |-> RenderRow(df, df.rows[i])]]

\* pc            where main is
\* db            the database the queries read
\* config_exists whether config.txt exists
\* conn          the connection: "none", "open" or "closed"
\* attempts      calls of psycopg2.connect
\* closes        calls of conn.close
\* qi            the position of the loop over QUERIES
\* results       the frame execute_query returned at each iteration
\* dataframes    main's list of non-empty frames
\* final_df      main's final_df (merge_dataframes' result, then sorted)
\* file          kpi_dashboard_<YYYYMMDD>.html: "untouched" or "written"
\* html          the document written
\* viewer        calls of webbrowser.open
\* exc           the exception caught by main's except clause
\* out           the messages printed
\* acks          calls of input()
\* issued        the queries executed on the connection
VARIABLES pc, db, config_exists, conn, attempts, closes, qi, results,
          dataframes, final_df, file, html, viewer, exc, out, acks, issued

vars == <<pc, db, config_exists, conn, attempts, closes, qi, results,
          dataframes, final_df, file, html, viewer, exc, out, acks, issued>>

EmptyHtml == [total_dossiers |-> 0, pieces |-> 0, ecritures |-> 0,
              comptes |-> 0, rows |-> <<>>]

Say(msg) == out' = Append(out, msg)

Init ==
  /\ pc = "start"
  /\ db \in Databases
  /\ config_exists \in BOOLEAN
  /\ conn = "none"
  /\ attempts = 0
  /\ closes = 0
  /\ qi = 1
  /\ results = <<>>
  /\ dataframes = <<>>
  /\ final_df = EmptyDataFrame
  /\ file = "untouched"
  /\ html = EmptyHtml
  /\ viewer = 0
  /\ exc = "none"
  /\ out = <<>>
  /\ acks = 0
  /\ issued = <<>>

ConfigMissingFallsThrough ==
  /\ pc = "start"
  /\ ~config_exists
  /\ out' = out \o <<"banner", "config_missing">>
  /\ acks' = acks + 1
  /\ pc' = "connect"
  /\ UNCHANGED <<db, config_exists, conn, attempts, closes, qi, results,
                 dataframes, final_df, file, html, viewer, exc, issued>>

\* main, lines 341-354: the banner, then the config.txt check; when the file
\* is absent the instructions are printed, input() waits and main returns.
ConfigMissing ==
  /\ pc = "start"
  /\ ~config_exists
  /\ out' = out \o <<"banner", "config_missing">>
  /\ acks' = acks + 1
  /\ pc' = "done"
  /\ UNCHANGED <<db, config_exists, conn, attempts, closes, qi, results,
                 dataframes, final_df, file, html, viewer, exc, issued>>

ConfigPresent ==
  /\ pc = "start"
  /\ config_exists
  /\ Say("banner")
  /\ pc' = "connect"
  /\ UNCHANGED <<db, config_exists, conn, attempts, closes, qi, results,
                 dataframes, final_df, file, html, viewer, exc, acks, issued>>

\* connect_database and main, lines 357-360: one psycopg2.connect; on an
\* exception the error is printed, None is returned, input() waits and main
\* returns.
ConnectOk ==
  /\ pc = "connect"
  /\ attempts' = attempts + 1
  /\ conn' = "open"
  /\ dataframes' = <<>>
  /\ qi' = 1
  /\ pc' = "queries"
  /\ UNCHANGED <<db, config_exists, closes, results, final_df, file, html,
                 viewer, exc, out, acks, issued>>

ConnectFail ==
  /\ pc = "connect"
  /\ attempts' = attempts + 1
  /\ Say("connection_error")
  /\ acks' = acks + 1
  /\ pc' = "done"
  /\ UNCHANGED <<db, config_exists, conn, closes, qi, results, dataframes,
                 final_df, file, html, viewer, exc, issued>>

\* execute_query: the frame pd.read_sql_query returns, or pd.DataFrame() when
\* it raises.
execute_query(ok, table) == IF ok THEN table ELSE EmptyDataFrame

\* main, line 367: only non-empty frames are kept.
Keep(dfs, df) == IF ~IsEmpty(df) THEN Append(dfs, df) ELSE dfs

\* The catalog entry the loop of line 365 visits at its i-th iteration.
QueryAt(i) == i

RunQueryStopOnError(ok, table) ==
  /\ pc = "queries"
  /\ qi <= NumQueries
  /\ issued' = Append(issued, QueryNames[QueryAt(qi)])
  /\ Say(IF ok THEN "query_ok" ELSE "query_error")
  /\ results' = Append(results, execute_query(ok, table))
  /\ dataframes' = Keep(dataframes, execute_query(ok, table))
  /\ qi' = qi + 1
  /\ pc' = IF qi = NumQueries \/ ~ok THEN "generate" ELSE "queries"
  /\ UNCHANGED <<db, config_exists, conn, attempts, closes, final_df, file,
                 html, viewer, exc, acks>>

\* One iteration of the loop of lines 365-368.
RunQuery(ok, table) ==
  /\ pc = "queries"
  /\ qi <= NumQueries
  /\ issued' = Append(issued, QueryNames[QueryAt(qi)])
  /\ Say(IF ok THEN "query_ok" ELSE "query_error")
  /\ results' = Append(results, execute_query(ok, table))
  /\ dataframes' = Keep(dataframes, execute_query(ok, table))
  /\ qi' = qi + 1
  /\ pc' = IF qi = NumQueries THEN "generate" ELSE "queries"
  /\ UNCHANGED <<db, config_exists, conn, attempts, closes, final_df, file,
                 html, viewer, exc, acks>>

QuerySucceeds ==
  /\ pc = "queries"
  /\ qi <= NumQueries
  /\ RunQuery(TRUE, QueryResult(QueryAt(qi), db))

QueryFails == RunQuery(FALSE, EmptyDataFrame)

\* main, line 371: `if dataframes:`
HasData(dfs) == dfs # <<>>

\* main, line 372
MergeFrames ==
  /\ pc = "generate"
  /\ HasData(dataframes)
  /\ final_df' = merge_dataframes(dataframes)
  /\ pc' = "sort"
  /\ UNCHANGED <<db, config_exists, conn, attempts, closes, qi, results,
                 dataframes, file, html, viewer, exc, out, acks, issued>>

\* main, line 373: sort_values raises KeyError when the frame has no column
\* 'nb_pieces_a_traiter'.
SortColumn == "nb_pieces_a_traiter"

SortFrame ==
  /\ pc = "sort"
  /\ SortColumn \in ColSet(final_df)
  /\ final_df' = sort_values(final_df, SortColumn)
  /\ pc' = "render"
  /\ UNCHANGED <<db, config_exists, conn, attempts, closes, qi, results,
                 dataframes, file, html, viewer, exc, out, acks, issued>>

SortKeyError ==
  /\ pc = "sort"
  /\ SortColumn \notin ColSet(final_df)
  /\ exc' = "KeyError"
  /\ pc' = "except"
  /\ UNCHANGED <<db, config_exists, conn, attempts, closes, qi, results,
                 dataframes, final_df, file, html, viewer, out, acks, issued>>

\* main, lines 376-377, and generate_html_report: the document is built and
\* written to kpi_dashboard_<YYYYMMDD>.html, replacing a report of the same day.
RenderReport ==
  /\ pc = "render"
  /\ html' = HtmlContent(final_df)
  /\ file' = "written"
  /\ Say("report_written")
  /\ pc' = "viewer"
  /\ UNCHANGED <<db, config_exists, conn, attempts, closes, qi, results,
                 dataframes, final_df, viewer, exc, acks, issued>>

\* generate_html_report, line 334: open(output_file, 'w') raises (OSError);
\* nothing is written.
RenderFails ==
  /\ pc = "render"
  /\ exc' = "OSError"
  /\ pc' = "except"
  /\ UNCHANGED <<db, config_exists, conn, attempts, closes, qi, results,
                 dataframes, final_df, file, html, viewer, out, acks, issued>>

\* main, lines 379-386: the success summary, then webbrowser.open.
OpenViewer ==
  /\ pc = "viewer"
  /\ Say("success_summary")
  /\ viewer' = viewer + 1
  /\ pc' = "finally"
  /\ UNCHANGED <<db, config_exists, conn, attempts, closes, qi, results,
                 dataframes, final_df, file, html, exc, acks, issued>>

\* webbrowser.open raises (webbrowser.Error).
OpenViewerFails ==
  /\ pc = "viewer"
  /\ Say("success_summary")
  /\ viewer' = viewer + 1
  /\ exc' = "webbrowser.Error"
  /\ pc' = "except"
  /\ UNCHANGED <<db, config_exists, conn, attempts, closes, qi, results,
                 dataframes, final_df, file, html, acks, issued>>

\* main, lines 388-390
NoData ==
  /\ pc = "generate"
  /\ ~HasData(dataframes)
  /\ Say("no_data")
  /\ acks' = acks + 1
  /\ pc' = "finally"
  /\ UNCHANGED <<db, config_exists, conn, attempts, closes, qi, results,
                 dataframes, final_df, file, html, viewer, exc, issued>>

ExceptHandlerSkipsFinally ==
  /\ pc = "except"
  /\ Say("generation_error")
  /\ acks' = acks + 1
  /\ pc' = "after_try"
  /\ UNCHANGED <<db, config_exists, conn, attempts, closes, qi, results,
                 dataframes, final_df, file, html, viewer, exc, issued>>

\* main, lines 392-394
ExceptHandler ==
  /\ pc = "except"
  /\ Say("generation_error")
  /\ acks' = acks + 1
  /\ pc' = "finally"
  /\ UNCHANGED <<db, config_exists, conn, attempts, closes, qi, results,
                 dataframes, final_df, file, html, viewer, exc, issued>>

\* main, lines 396-397
Finally ==
  /\ pc = "finally"
  /\ conn' = "closed"
  /\ closes' = closes + 1
  /\ pc' = "after_try"
  /\ UNCHANGED <<db, config_exists, attempts, qi, results, dataframes,
                 final_df, file, html, viewer, exc, out, acks, issued>>

\* main, lines 399-400: reached after the try statement on every path.
Complete ==
  /\ pc = "after_try"
  /\ Say("termine")
  /\ acks' = acks + 1
  /\ pc' = "done"
  /\ UNCHANGED <<db, config_exists, conn, attempts, closes, qi, results,
                 dataframes, final_df, file, html, viewer, exc, issued>>

Next ==
  \/ ConfigMissing
  \/ ConfigPresent
  \/ ConnectOk
  \/ ConnectFail
  \/ QuerySucceeds
  \/ QueryFails
  \/ MergeFrames
  \/ SortFrame
  \/ SortKeyError
  \/ RenderReport
  \/ RenderFails
  \/ OpenViewer
  \/ OpenViewerFails
  \/ NoData
  \/ ExceptHandler
  \/ Finally
  \/ Complete

Spec == Init /\ [][Next]_vars

\* ------------------------------------------------- merge_dataframes alone
\* The lists merge_dataframes may be given: non-empty tables of up to
\* MaxTables queries of the catalog, in catalog order.
RECURSIVE FrameLists(_)
FrameLists(q) ==
  IF q > NumQueries THEN {<<>>}
  ELSE LET rest == FrameLists(q + 1)
       IN rest \cup { <<t>> \o l : t \in {x \in ResultTables(q) : ~IsEmpty(x)},
                                     l \in {y \in rest : Len(y) < MaxTables} }

NoDatabase == [d \in Dossiers |-> [exported |-> FALSE, pending |-> "none", pieces |-> 0]]

Idle ==
  /\ db = NoDatabase
  /\ config_exists = TRUE
  /\ conn = "none"
  /\ attempts = 0
  /\ closes = 0
  /\ qi = 1
  /\ results = <<>>
  /\ file = "untouched"
  /\ html = EmptyHtml
  /\ viewer = 0
  /\ exc = "none"
  /\ out = <<>>
  /\ acks = 0
  /\ issued = <<>>

InitMerge ==
  /\ Idle
  /\ pc = "call_merge"
  /\ dataframes \in FrameLists(1) \ {<<>>}
  /\ final_df = EmptyDataFrame

CallMerge ==
  /\ pc = "call_merge"
  /\ final_df' = merge_dataframes(dataframes)
  /\ pc' = "merge_returned"
  /\ UNCHANGED <<db, config_exists, conn, attempts, closes, qi, results,
                 dataframes, file, html, viewer, exc, out, acks, issued>>

NextMerge == CallMerge

SpecMerge == InitMerge /\ [][NextMerge]_vars

\* --------------------------------------------- generate_html_report alone
\* Merged frames of two rows: the first with any 'pieces to process' up to
\* MaxPieces and any 'accounts pending' up to MaxComptes, the second one of
\* two fixed rows.
RenderInputs ==
  { [cols |-> <<"dossier", "nb_pieces_a_traiter", "nb_comptes_attente">>,
     rows |-> << [c \in {"dossier", "nb_pieces_a_traiter", "nb_comptes_attente"} |->
                    IF c = "dossier" THEN "A"
                    ELSE IF c = "nb_pieces_a_traiter" THEN n ELSE m],
                 [c \in {"dossier", "nb_pieces_a_traiter", "nb_comptes_attente"} |->
                    IF c = "dossier" THEN "B"
                    ELSE IF c = "nb_pieces_a_traiter" THEN o[1] ELSE o[2]] >>] :
      n \in 0..MaxPieces, m \in 0..MaxComptes, o \in {<<0, 0>>, <<60, 11>>} }

InitRender ==
  /\ Idle
  /\ pc = "call_render"
  /\ dataframes = <<>>
  /\ final_df \in RenderInputs

CallRender ==
  /\ pc = "call_render"
  /\ html' = HtmlContent(final_df)
  /\ file' = "written"
  /\ Say("report_written")
  /\ pc' = "render_returned"
  /\ UNCHANGED <<db, config_exists, conn, attempts, closes, qi, results,
                 dataframes, final_df, viewer, exc, acks, issued>>

NextRender == CallRender

SpecRender == InitRender /\ [][NextRender]_vars

\* ================================================================ claims
Connected == conn # "none"
LoopDone == Connected /\ Len(results) = NumQueries
AllEmpty == \A i \in 1..Len(results) : Len(results[i].rows) = 0
Printed(msg) == \E i \in 1..Len(out) : out[i] = msg
RowCount(df, d) == Cardinality({i \in 1..Len(df.rows) : df.rows[i]["dossier"] = d})
\* The input frame of a merge that supplies column c.
Supplier(c) == CHOOSE i \in 1..Len(dataframes) : c \in ColSet(dataframes[i])
CellOf(df, d, c) == df.rows[CHOOSE i \in 1..Len(df.rows) : df.rows[i]["dossier"] = d][c]

\* C1: per-query failure is isolated: in every run whose connection
\* succeeded and in which at least one query returned rows, whichever queries
\* failed or returned nothing, the run ends with the report file written and
\* without having taken the error path (failures of the file system or of
\* the viewer aside).
C1_PerQueryFailureIsolated ==
  (pc = "done" /\ Connected /\ ~AllEmpty /\ exc \notin {"OSError", "webbrowser.Error"})
    => (file = "written" /\ exc = "none" /\ ~Printed("generation_error"))

\* C2: outer-join completeness of merge_dataframes: the dossiers of the
\* merged table are the union of the dossiers of the input tables, and each
\* of them has exactly one merged row.
C2_OuterJoinCompleteness ==
  pc = "merge_returned" =>
    /\ DossiersOf(final_df) = UNION {DossiersOf(dataframes[i]) : i \in 1..Len(dataframes)}
    /\ \A d \in DossiersOf(final_df) : RowCount(final_df, d) = 1
    /\ Len(final_df.rows) = Cardinality(DossiersOf(final_df))

C2_Witness ==
  /\ pc = "merge_returned"
  /\ Len(dataframes) >= 2
  /\ DossiersOf(dataframes[1]) \ DossiersOf(dataframes[2]) # {}
  /\ DossiersOf(dataframes[2]) \ DossiersOf(dataframes[1]) # {}
  /\ Len(final_df.rows) = 2

\* C3: null-filling of the merged table: every column of every input table
\* is a column of the merged table; in every row each numeric cell is a
\* number, 0 when the dossier is missing from the table that supplies the
\* column and that table's value otherwise; each text cell is the empty
\* string when the dossier is missing from its table and the table's value
\* otherwise; and the key 'dossier' is never empty.
C3_NullFilling ==
  pc = "merge_returned" =>
    /\ \A i \in 1..Len(dataframes) : ColSet(dataframes[i]) \subseteq ColSet(final_df)
    /\ \A i \in 1..Len(final_df.rows) :
         LET row == final_df.rows[i]
             d == row["dossier"]
         IN /\ d \in Dossiers
            /\ d # ""
            /\ \A c \in ColSet(final_df) \ {"dossier"} :
                 LET src == dataframes[Supplier(c)]
                 IN IF c \in NumericColumns
                    THEN /\ row[c] # NaN
                         /\ row[c] >= 0
                         /\ row[c] = IF d \in DossiersOf(src) THEN CellOf(src, d, c) ELSE 0
                    ELSE /\ row[c] # NaNText
                         /\ row[c] = IF d \in DossiersOf(src) THEN CellOf(src, d, c) ELSE ""

\* The scenario of the specification: [{A, exportees 5}] merged with
\* [{A, a_traiter 60}, {B, a_traiter 3}] gives A:{5, 60} and B:{0, 3}.
C3_Witness ==
  /\ pc = "merge_returned"
  /\ Len(dataframes) = 2
  /\ dataframes[1].cols = <<"dossier", "nb_pieces_exportees">>
  /\ dataframes[2].cols = <<"dossier", "nb_pieces_a_traiter">>
  /\ DossiersOf(dataframes[1]) = {"A"}
  /\ Len(final_df.rows) = 2
  /\ final_df.rows[1]["dossier"] = "A"
  /\ final_df.rows[1]["nb_pieces_exportees"] = 5
  /\ final_df.rows[1]["nb_pieces_a_traiter"] = 60
  /\ final_df.rows[2]["dossier"] = "B"
  /\ final_df.rows[2]["nb_pieces_exportees"] = 0
  /\ final_df.rows[2]["nb_pieces_a_traiter"] = 3

\* C4: empty-result abort: once all six queries have failed or returned no
\* rows, generate_html_report is never called, the output file is neither
\* created nor overwritten and the viewer is not opened.
C4_EmptyResultAbort ==
  (LoopDone /\ AllEmpty) =>
    /\ pc \notin {"render", "viewer"}
    /\ file = "untouched"
    /\ html = EmptyHtml
    /\ viewer = 0
    /\ ~Printed("report_written")

C4_Witness ==
  /\ pc = "done"
  /\ LoopDone
  /\ AllEmpty
  /\ Printed("query_ok")
  /\ Printed("query_error")
  /\ Printed("no_data")

\* C5: query issuance discipline: the queries executed on the connection are
\* always a prefix of the catalog, in catalog order, one per loop iteration;
\* once the loop is over they are exactly the six catalog queries, each
\* once, whether or not some of them failed; without a connection none is
\* executed.
C5_QueryIssuance ==
  /\ Len(issued) <= NumQueries
  /\ issued = SubSeq(QueryNames, 1, Len(issued))
  /\ Len(issued) = Len(results)
  /\ (pc = "queries" => Len(issued) = qi - 1)
  /\ ((Connected /\ pc # "queries") => issued = QueryNames)
  /\ (~Connected => issued = <<>>)

C5_Witness ==
  /\ pc = "done"
  /\ issued = QueryNames
  /\ out[2] = "query_error"
  /\ out[3] = "query_error"
  /\ Len(results[6].rows) > 0

\* C6: connection lifecycle: at most one connection attempt and at most one
\* close; a run that connected ends with the connection closed exactly once,
\* on every exit path; a run whose attempt failed ends with no query executed
\* and no file written; and a query is only ever executed on the open
\* connection.
C6_StateInvariant ==
  /\ attempts <= 1
  /\ closes <= 1
  /\ (conn = "closed") = (closes = 1)
  /\ (conn = "closed" => pc \in {"after_try", "done"})
  /\ (pc = "done" /\ attempts = 1 =>
        IF Connected THEN conn = "closed" /\ closes = 1
        ELSE issued = <<>> /\ file = "untouched" /\ closes = 0)

C6_ConnectionLifecycle ==
  /\ []C6_StateInvariant
  /\ [][issued' # issued => (conn = "open" /\ conn' = "open")]_vars

C6_Witness ==
  /\ pc = "done"
  /\ exc = "OSError"
  /\ conn = "closed"
  /\ closes = 1
  /\ Len(issued) = NumQueries

\* C7: config-missing abort: without config.txt the run prints the
\* instructions, waits for one acknowledgment and returns; it makes no
\* connection attempt, executes no query and writes no file.
C7_ConfigMissingAbort ==
  ~config_exists =>
    /\ pc \in {"start", "done"}
    /\ attempts = 0
    /\ conn = "none"
    /\ issued = <<>>
    /\ file = "untouched"
    /\ (pc = "done" => out = <<"banner", "config_missing">> /\ acks = 1)

C7_Witness ==
  /\ pc = "done"
  /\ ~config_exists
  /\ acks = 1
  /\ Printed("config_missing")

\* C8: sorting of the rendered table: whenever the frame is handed to the
\* renderer or a report has been written, its rows are non-increasing in
\* nb_pieces_a_traiter, the rows of dossiers absent from the result of
\* 'pieces_non_exportees' hold 0 there and no row with a larger value follows
\* them, and the document lists the rows in that order.
Rendering == pc \in {"render", "viewer"} \/ file = "written"

C8_SortedOutput ==
  Rendering =>
    LET rows == final_df.rows
        Missing(i) == rows[i]["dossier"] \notin DossiersOf(results[3])
    IN /\ \A i, j \in 1..Len(rows) :
            i < j => rows[i]["nb_pieces_a_traiter"] >= rows[j]["nb_pieces_a_traiter"]
       /\ \A i \in 1..Len(rows) :
            Missing(i) => /\ rows[i]["nb_pieces_a_traiter"] = 0
                          /\ \A j \in 1..Len(rows) :
                               rows[j]["nb_pieces_a_traiter"] > 0 => j < i
       /\ (file = "written" =>
             /\ Len(html.rows) = Len(rows)
             /\ \A i \in 1..Len(rows) :
                  /\ html.rows[i].dossier = rows[i]["dossier"]
                  /\ html.rows[i].pieces_a_traiter = rows[i]["nb_pieces_a_traiter"])

C8_Witness ==
  /\ pc = "done"
  /\ file = "written"
  /\ Len(html.rows) = 2
  /\ html.rows[1].dossier = "B"
  /\ html.rows[1].pieces_a_traiter = 3
  /\ html.rows[2].dossier = "A"
  /\ html.rows[2].dossier \notin DossiersOf(results[3])
  /\ html.rows[2].pieces_a_traiter = 0

\* C9: severity classification: in every rendered row the class of the
\* 'pieces to process' cell is 'warning' iff its value exceeds 50, 'good' iff
\* it is 0 and empty otherwise, and the class of the 'accounts pending' cell
\* is 'warning' iff its value exceeds 10, 'good' iff it is 0 and empty
\* otherwise, whatever the other cell and the other rows hold.
C9_SeverityClassification ==
  \A i \in 1..Len(html.rows) :
    LET r == html.rows[i]
    IN /\ r.pieces_class = (IF r.pieces_a_traiter > 50 THEN "warning"
                            ELSE IF r.pieces_a_traiter = 0 THEN "good" ELSE "")
       /\ r.comptes_class = (IF r.comptes_attente > 10 THEN "warning"
                             ELSE IF r.comptes_attente = 0 THEN "good" ELSE "")
       /\ r.pieces_a_traiter = final_df.rows[i]["nb_pieces_a_traiter"]
       /\ r.comptes_attente = final_df.rows[i]["nb_comptes_attente"]

C9_Witness ==
  /\ pc = "render_returned"
  /\ html.rows[1].pieces_a_traiter = 50
  /\ html.rows[1].pieces_class = ""
  /\ html.rows[1].comptes_attente = 11
  /\ html.rows[1].comptes_class = "warning"
  /\ html.rows[2].pieces_a_traiter = 0
  /\ html.rows[2].pieces_class = "good"

\* C10: completion only on success: a finished run has printed the
\* completion message only if the report file was written and the viewer
\* open was attempted; a run that hit a fatal condition (missing config,
\* failed connection, empty final dataset, exception) has printed its
\* diagnostic, waited for exactly one acknowledgment and not printed the
\* completion message.
Fatal ==
  \/ Printed("config_missing")
  \/ Printed("connection_error")
  \/ Printed("no_data")
  \/ Printed("generation_error")

C10_CompletionOnlyOnSuccess ==
  pc = "done" =>
    /\ (Printed("termine") => (file = "written" /\ viewer >= 1))
    /\ (Fatal => (acks = 1 /\ ~Printed("termine")))

====
